---- MODULE Spec2Model ----
(***************************************************************************)
(* Room-booking backend: the booking store, the room store, the clock and  *)
(* the three booking operations of services/booking.service.ts, together   *)
(* with the date utilities they call.                                      *)
(*                                                                         *)
(* Instants are integers, the value of Date.getTime() in milliseconds.     *)
(* Every await of the source is a suspension point, so each operation is   *)
(* modelled twice from the same building blocks: step by step (one action  *)
(* per repository call, for interleaved requests) and as one action that   *)
(* runs the steps back to back (for calls that run to completion).         *)
(***************************************************************************)
EXTENDS Integers, Sequences, FiniteSets, TLC

(***************************************************************************)
(* Bounds of the model                                                     *)
(***************************************************************************)
\* the store holds at most MaxBookings booking documents
MaxBookings == 2
\* and at most MaxEdgeBookings where the instants are those at the limits of
\* the validation rules (SpecEdge)
MaxEdgeBookings == 1
\* calculateAvailableSlots is given at most MaxSlotBookings bookings
MaxSlotBookings == 2
\* the store a received request is handled in holds at most MaxOrderBookings
\* bookings (SpecOrder)
MaxOrderBookings == 2
\* the store the conflict checks are compared in holds at most
\* MaxConflictBookings bookings (SpecConflict)
MaxConflictBookings == 2
\* the store that rooms are administered over holds at most MaxAdminBookings
\* bookings (SpecAdmin)
MaxAdminBookings == 2
\* the store whose free slots are tested for conflicts holds at most
\* MaxFreeBookings bookings (SpecFree)
MaxFreeBookings == 2
\* the store the all-rooms availability is read in holds at most
\* MaxRoomsBookings bookings (SpecRooms)
MaxRoomsBookings == 2

(***************************************************************************)
(* Time                                                                    *)
(***************************************************************************)
MsPerSecond == 1000
MsPerMinute == 1000 * 60
MsPerHour == 60 * MsPerMinute
MsPerDay == 24 * MsPerHour

\* the first instant of every run: 10:00:00.000 local time on day 0
T0 == 10 * MsPerHour
\* width of one step of the coarse grid: half an hour
TickMs == 30 * MsPerMinute
\* the coarse grid: three instants half an hour apart, which give two
\* adjacent windows and one that overlaps both
Times == {T0, T0 + TickMs, T0 + 2 * TickMs}

\* instants around the limits of the validation rules: one second apart,
\* 29 and 30 minutes apart, 120 hours and 120 hours plus a millisecond apart
EdgeA0 == T0
EdgeA1 == T0 + MsPerSecond
EdgeA2 == T0 + 2 * MsPerSecond
EdgeB29 == EdgeA2 + 29 * MsPerMinute
EdgeB30 == EdgeA2 + 30 * MsPerMinute
EdgeC == EdgeA2 + 120 * MsPerHour
EdgeD == EdgeC + 1
EdgeTimes == {EdgeA0, EdgeA1, EdgeA2, EdgeB29, EdgeB30, EdgeC, EdgeD}

\* Date.getFullYear/getMonth/getDate taken together: the local calendar day
\* (local time is taken to be at offset 0, without daylight saving)
DayOf(t) == t \div MsPerDay

(***************************************************************************)
(* Date utilities                                                          *)
(***************************************************************************)
\* plausible slip: on the same day only the date part is compared
isDateInPastDayOnly(date, nowT) ==
    IF DayOf(date) = DayOf(nowT) THEN FALSE ELSE date < nowT

isDateInPast(date, nowT) ==
    IF DayOf(date) = DayOf(nowT)
    THEN date < nowT   \* same day: date.getTime() < now.getTime()
    ELSE date < nowT   \* date < now

\* plausible slip: closed intervals
isOverlappingClosed(existingStart, existingEnd, newStart, newEnd) ==
    newStart <= existingEnd /\ newEnd >= existingStart

isOverlapping(existingStart, existingEnd, newStart, newEnd) ==
    newStart < existingEnd /\ newEnd > existingStart

DefaultMaxHours == 120
DefaultMinMinutes == 30

\* plausible slip: the duration is truncated to whole minutes before the test
isValidBookingDurationFloor(startTime, endTime, maxHours, minMinutes) ==
    LET durationInMinutes == (endTime - startTime) \div MsPerMinute
        maxMinutes == maxHours * 60
    IN  durationInMinutes <= maxMinutes /\ durationInMinutes >= minMinutes

\* durationInMinutes = (endTime - startTime) / 60000 is a fraction in the
\* source; both comparisons are taken after multiplying through by 60000
isValidBookingDuration(startTime, endTime, maxHours, minMinutes) ==
    LET durationMs == endTime - startTime
        maxMinutes == maxHours * 60
    IN  durationMs <= maxMinutes * MsPerMinute /\ durationMs >= minMinutes * MsPerMinute

(***************************************************************************)
(* Users, rooms, bookings                                                  *)
(***************************************************************************)
Users == {"u1", "u2", "adm"}
\* User documents: the role field (default 'user')
UserRole == [u \in Users |-> IF u = "adm" THEN "admin" ELSE "user"]

checkUserIsAdmin(userId) == userId \in DOMAIN UserRole /\ UserRole[userId] = "admin"

\* ids of the rooms of the store, and an id no room has
RoomIds == {"r1", "r2"}
NoRoomId == "r0"

BookingStatus == {"active", "cancelled", "pending", "confirmed"}

\* plausible slip: pending bookings are not counted as occupying the room
LiveStatusesNoPending == {"confirmed", "active"}

\* plausible slip: the status filter lets cancelled bookings through
LiveStatusesWithCancelled == {"confirmed", "active", "pending", "cancelled"}

\* status: { $in: ['confirmed', 'active', 'pending'] }
LiveStatuses == {"confirmed", "active", "pending"}

\* messages of the errors the operations throw
OK == "ok"
ErrStartBeforeEnd == "Start time must be before end time"
ErrDuration == "Booking duration cannot exceed 24 hours"
ErrCreatePast == "Cannot book a room in the past"
ErrRoomNotFound == "Room not found"
ErrRoomInactive == "Room is not available for booking"
ErrConflict == "Room is already booked during this time"
ErrReschedulePast == "Cannot reschedule to a past time"
ErrBookingNotFound == "Booking not found"
ErrRescheduleAuth == "Not authorized to reschedule this booking"
ErrReschedulePastBooking == "Cannot reschedule a past booking"
ErrCancelAuth == "Not authorized to cancel this booking"
ErrCancelPastBooking == "Cannot cancel a past booking"

VARIABLES
    bookings,   \* the booking collection: a sequence, a document's _id is its index
    rooms,      \* the room collection: room id -> [isActive]
    now,        \* the clock, what new Date() returns
    reqs,       \* per request slot: the operation in flight, or its response
    util,       \* the last call of a date utility: its arguments and result
    users       \* the user collection: the documents registerUser has saved

vars == <<bookings, rooms, now, reqs, util, users>>

Procs == {"p1", "p2"}


(***************************************************************************)
(* Request slots                                                           *)
(***************************************************************************)
\* a loaded booking document, reduced to the fields the operations read from
\* it after loading: existingBooking.roomId, .userId and .startTime
NoDoc == [roomId |-> "none", userId |-> "none", startTime |-> 0]

Load(b) == [roomId |-> b.roomId, userId |-> b.userId, startTime |-> b.startTime]

Idle == [pc |-> "idle", op |-> "none", roomId |-> "none", bookingId |-> 0,
         startTime |-> 0, endTime |-> 0, userId |-> "none", doc |-> NoDoc,
         result |-> "none"]

\* the response of a finished call: the operation and OK or the error thrown
Done(op, result) == [Idle EXCEPT !.pc = "done", !.op = op, !.result = result]

InFlight(p) == reqs[p].pc \notin {"idle", "done"}

(***************************************************************************)
(* Building blocks of the operations                                       *)
(***************************************************************************)
\* plausible slip: the past check comes before the duration check
createValidatePastFirst(startTime, endTime, nowT) ==
    IF startTime >= endTime THEN ErrStartBeforeEnd
    ELSE IF isDateInPast(startTime, nowT) THEN ErrCreatePast
    ELSE IF ~isValidBookingDuration(startTime, endTime, DefaultMaxHours, DefaultMinMinutes)
         THEN ErrDuration
    ELSE OK

\* createBooking, the checks before the first await
createValidate(startTime, endTime, nowT) ==
    IF startTime >= endTime THEN ErrStartBeforeEnd
    ELSE IF ~isValidBookingDuration(startTime, endTime, DefaultMaxHours, DefaultMinMinutes)
         THEN ErrDuration
    ELSE IF isDateInPast(startTime, nowT) THEN ErrCreatePast
    ELSE OK
\* plausible slip: the isActive flag is not looked at
createRoomCheckExistsOnly(rm, roomId) ==
    IF roomId \notin DOMAIN rm THEN ErrRoomNotFound ELSE OK

\* createBooking, Room.findById and the two checks on its result
createRoomCheck(rm, roomId) ==
    IF roomId \notin DOMAIN rm THEN ErrRoomNotFound
    ELSE IF ~rm[roomId].isActive THEN ErrRoomInactive
    ELSE OK

\* plausible slip: the query forgets the room
createFindOverlappingAnyRoom(bk, roomId, startTime, endTime) ==
    {i \in DOMAIN bk :
        /\ bk[i].status \in LiveStatuses
        /\ bk[i].startTime < endTime /\ bk[i].endTime > startTime}

\* plausible slip: only bookings that start inside the new window are found
createFindOverlappingStartInside(bk, roomId, startTime, endTime) ==
    {i \in DOMAIN bk :
        /\ bk[i].roomId = roomId
        /\ bk[i].status \in LiveStatuses
        /\ bk[i].startTime >= startTime /\ bk[i].startTime < endTime}

\* createBooking, BookingModel.find({roomId, status: {$in: ...},
\*   $or: [{startTime: {$lt: endTime}, endTime: {$gt: startTime}}]})
createFindOverlapping(bk, roomId, startTime, endTime) ==
    {i \in DOMAIN bk :
        /\ bk[i].roomId = roomId
        /\ bk[i].status \in LiveStatuses
        /\ bk[i].startTime < endTime /\ bk[i].endTime > startTime}

\* the document createBooking saves
NewBooking(roomId, userId, startTime, endTime) ==
    [roomId |-> roomId, userId |-> userId, startTime |-> startTime,
     endTime |-> endTime, status |-> "confirmed"]
\* plausible slip: the new window's duration is not checked
rescheduleValidateNoDuration(startTime, endTime, nowT) ==
    IF startTime >= endTime THEN ErrStartBeforeEnd
    ELSE IF isDateInPast(startTime, nowT) THEN ErrReschedulePast
    ELSE OK

\* rescheduleBooking, the checks before the first await
rescheduleValidate(startTime, endTime, nowT) ==
    IF startTime >= endTime THEN ErrStartBeforeEnd
    ELSE IF ~isValidBookingDuration(startTime, endTime, DefaultMaxHours, DefaultMinMinutes)
         THEN ErrDuration
    ELSE IF isDateInPast(startTime, nowT) THEN ErrReschedulePast
    ELSE OK
\* plausible slip: the ownership check is left out
rescheduleAuthorizeNoOwnerCheck(existingBooking, userId, nowT) ==
    IF isDateInPast(existingBooking.startTime, nowT) THEN ErrReschedulePastBooking
    ELSE OK

\* plausible slip: the check that the booking has not begun comes first
rescheduleAuthorizePastFirst(existingBooking, userId, nowT) ==
    LET isUserAdmin == checkUserIsAdmin(userId)
    IN  IF isDateInPast(existingBooking.startTime, nowT) THEN ErrReschedulePastBooking
        ELSE IF existingBooking.userId # userId /\ ~isUserAdmin THEN ErrRescheduleAuth
        ELSE OK

\* rescheduleBooking, the authorization check and the check that the loaded
\* booking has not begun
rescheduleAuthorize(existingBooking, userId, nowT) ==
    LET isUserAdmin == checkUserIsAdmin(userId)
    IN  IF existingBooking.userId # userId /\ ~isUserAdmin THEN ErrRescheduleAuth
        ELSE IF isDateInPast(existingBooking.startTime, nowT) THEN ErrReschedulePastBooking
        ELSE OK

\* plausible slip: the query does not exclude the booking being moved
rescheduleFindOverlappingNoExclude(bk, roomId, bookingId, startTime, endTime) ==
    {i \in DOMAIN bk :
        /\ bk[i].roomId = roomId
        /\ bk[i].status \in LiveStatuses
        /\ bk[i].startTime < endTime /\ bk[i].endTime > startTime}

\* rescheduleBooking, BookingModel.find({roomId: existingBooking.roomId,
\*   _id: {$ne: existingBooking._id}, status: {$in: ...}, $or: [...]})
rescheduleFindOverlapping(bk, roomId, bookingId, startTime, endTime) ==
    {i \in DOMAIN bk :
        /\ bk[i].roomId = roomId
        /\ i # bookingId
        /\ bk[i].status \in LiveStatuses
        /\ bk[i].startTime < endTime /\ bk[i].endTime > startTime}
\* plausible slip: a moved booking is confirmed again
rescheduleSaveReconfirm(bk, bookingId, startTime, endTime) ==
    [bk EXCEPT ![bookingId].startTime = startTime, ![bookingId].endTime = endTime,
               ![bookingId].status = "confirmed"]

\* existingBooking.save() after the two assignments: only the modified
\* paths startTime and endTime are written to the stored document
rescheduleSave(bk, bookingId, startTime, endTime) ==
    [bk EXCEPT ![bookingId].startTime = startTime, ![bookingId].endTime = endTime]

\* cancelBooking, the authorization check and the check that the loaded
\* booking has not begun
cancelAuthorize(booking, userId, nowT) ==
    LET isUserAdmin == checkUserIsAdmin(userId)
    IN  IF booking.userId # userId /\ ~isUserAdmin THEN ErrCancelAuth
        ELSE IF isDateInPast(booking.startTime, nowT) THEN ErrCancelPastBooking
        ELSE OK

\* booking.save() after booking.status = 'cancelled': only status is written
cancelSave(bk, bookingId) == [bk EXCEPT ![bookingId].status = "cancelled"]


(***************************************************************************)
(* createBooking, step by step                                             *)
(***************************************************************************)
\* the call: the synchronous validation, then Room.findById is awaited
CreateStart(p, roomId, startTime, endTime, userId) ==
    /\ ~InFlight(p)
    /\ LET v == createValidate(startTime, endTime, now)
       IN  reqs' = [reqs EXCEPT ![p] =
                IF v # OK THEN Done("create", v)
                ELSE [Idle EXCEPT !.pc = "c_findRoom", !.op = "create",
                                  !.roomId = roomId, !.startTime = startTime,
                                  !.endTime = endTime, !.userId = userId]]
    /\ UNCHANGED <<bookings, rooms, now, util, users>>

\* Room.findById answers; the overlap query is awaited
CreateFindRoom(p) ==
    /\ reqs[p].pc = "c_findRoom"
    /\ LET r == createRoomCheck(rooms, reqs[p].roomId)
       IN  reqs' = [reqs EXCEPT ![p] =
                IF r # OK THEN Done("create", r) ELSE [@ EXCEPT !.pc = "c_findOverlap"]]
    /\ UNCHANGED <<bookings, rooms, now, util, users>>

\* the overlap query answers; booking.save() is awaited
CreateFindOverlap(p) ==
    /\ reqs[p].pc = "c_findOverlap"
    /\ LET overlappingBookings ==
               createFindOverlapping(bookings, reqs[p].roomId,
                                     reqs[p].startTime, reqs[p].endTime)
       IN  reqs' = [reqs EXCEPT ![p] =
                IF Cardinality(overlappingBookings) > 0 THEN Done("create", ErrConflict)
                ELSE [@ EXCEPT !.pc = "c_save"]]
    /\ UNCHANGED <<bookings, rooms, now, util, users>>

\* booking.save() inserts the document (the schema has no unique index and
\* no validator that looks at other documents); the populates only read
CreateSave(p) ==
    /\ reqs[p].pc = "c_save"
    /\ bookings' = Append(bookings, NewBooking(reqs[p].roomId, reqs[p].userId,
                                               reqs[p].startTime, reqs[p].endTime))
    /\ reqs' = [reqs EXCEPT ![p] = Done("create", OK)]
    /\ UNCHANGED <<rooms, now, util, users>>

(***************************************************************************)
(* rescheduleBooking, step by step                                         *)
(***************************************************************************)
RescheduleStart(p, bookingId, startTime, endTime, userId) ==
    /\ ~InFlight(p)
    /\ LET v == rescheduleValidate(startTime, endTime, now)
       IN  reqs' = [reqs EXCEPT ![p] =
                IF v # OK THEN Done("reschedule", v)
                ELSE [Idle EXCEPT !.pc = "r_findBooking", !.op = "reschedule",
                                  !.bookingId = bookingId, !.startTime = startTime,
                                  !.endTime = endTime, !.userId = userId]]
    /\ UNCHANGED <<bookings, rooms, now, util, users>>

\* BookingModel.findById answers: the document is loaded into existingBooking
RescheduleFindBooking(p) ==
    /\ reqs[p].pc = "r_findBooking"
    /\ reqs' = [reqs EXCEPT ![p] =
            IF reqs[p].bookingId \notin DOMAIN bookings
            THEN Done("reschedule", ErrBookingNotFound)
            ELSE [@ EXCEPT !.pc = "r_checkAdmin", !.doc = Load(bookings[reqs[p].bookingId])]]
    /\ UNCHANGED <<bookings, rooms, now, util, users>>

\* checkUserIsAdmin answers; authorization and the past check on the loaded
\* document, with the clock as it is now
RescheduleCheckAdmin(p) ==
    /\ reqs[p].pc = "r_checkAdmin"
    /\ LET a == rescheduleAuthorize(reqs[p].doc, reqs[p].userId, now)
       IN  reqs' = [reqs EXCEPT ![p] =
                IF a # OK THEN Done("reschedule", a) ELSE [@ EXCEPT !.pc = "r_findOverlap"]]
    /\ UNCHANGED <<bookings, rooms, now, util, users>>

RescheduleFindOverlap(p) ==
    /\ reqs[p].pc = "r_findOverlap"
    /\ LET overlappingBookings ==
               rescheduleFindOverlapping(bookings, reqs[p].doc.roomId, reqs[p].bookingId,
                                         reqs[p].startTime, reqs[p].endTime)
       IN  reqs' = [reqs EXCEPT ![p] =
                IF Cardinality(overlappingBookings) > 0 THEN Done("reschedule", ErrConflict)
                ELSE [@ EXCEPT !.pc = "r_save"]]
    /\ UNCHANGED <<bookings, rooms, now, util, users>>

RescheduleSave(p) ==
    /\ reqs[p].pc = "r_save"
    /\ bookings' = rescheduleSave(bookings, reqs[p].bookingId,
                                  reqs[p].startTime, reqs[p].endTime)
    /\ reqs' = [reqs EXCEPT ![p] = Done("reschedule", OK)]
    /\ UNCHANGED <<rooms, now, util, users>>

(***************************************************************************)
(* cancelBooking, step by step                                             *)
(***************************************************************************)
CancelStart(p, bookingId, userId) ==
    /\ ~InFlight(p)
    /\ reqs' = [reqs EXCEPT ![p] =
            [Idle EXCEPT !.pc = "x_findBooking", !.op = "cancel",
                         !.bookingId = bookingId, !.userId = userId]]
    /\ UNCHANGED <<bookings, rooms, now, util, users>>

CancelFindBooking(p) ==
    /\ reqs[p].pc = "x_findBooking"
    /\ reqs' = [reqs EXCEPT ![p] =
            IF reqs[p].bookingId \notin DOMAIN bookings
            THEN Done("cancel", ErrBookingNotFound)
            ELSE [@ EXCEPT !.pc = "x_checkAdmin", !.doc = Load(bookings[reqs[p].bookingId])]]
    /\ UNCHANGED <<bookings, rooms, now, util, users>>

CancelCheckAdmin(p) ==
    /\ reqs[p].pc = "x_checkAdmin"
    /\ LET a == cancelAuthorize(reqs[p].doc, reqs[p].userId, now)
       IN  reqs' = [reqs EXCEPT ![p] =
                IF a # OK THEN Done("cancel", a) ELSE [@ EXCEPT !.pc = "x_save"]]
    /\ UNCHANGED <<bookings, rooms, now, util, users>>

CancelSave(p) ==
    /\ reqs[p].pc = "x_save"
    /\ bookings' = cancelSave(bookings, reqs[p].bookingId)
    /\ reqs' = [reqs EXCEPT ![p] = Done("cancel", OK)]
    /\ UNCHANGED <<rooms, now, util, users>>


(***************************************************************************)
(* The operations run to completion: the same steps back to back, with no  *)
(* other request and no clock tick in between.  The response is left in    *)
(* the caller's request slot.                                              *)
(***************************************************************************)
\* what createBooking returns or throws in the store bk, rm at instant nowT
createOutcome(bk, rm, nowT, roomId, startTime, endTime) ==
    LET v == createValidate(startTime, endTime, nowT)
        r == createRoomCheck(rm, roomId)
    IN  IF v # OK THEN v
        ELSE IF r # OK THEN r
        ELSE IF Cardinality(createFindOverlapping(bk, roomId, startTime, endTime)) > 0
             THEN ErrConflict
        ELSE OK
\* plausible slip: the document is saved before the overlap query is looked at
createBookingSaveFirst(p, roomId, startTime, endTime, userId) ==
    LET res == createOutcome(bookings, rooms, now, roomId, startTime, endTime)
    IN  /\ ~InFlight(p)
        /\ bookings' = IF res \in {OK, ErrConflict}
                       THEN Append(bookings, NewBooking(roomId, userId, startTime, endTime))
                       ELSE bookings
        /\ reqs' = [reqs EXCEPT ![p] = Done("create", res)]
        /\ UNCHANGED <<rooms, now, util, users>>

createBooking(p, roomId, startTime, endTime, userId) ==
    LET res == createOutcome(bookings, rooms, now, roomId, startTime, endTime)
    IN  /\ ~InFlight(p)
        /\ bookings' = IF res = OK
                       THEN Append(bookings, NewBooking(roomId, userId, startTime, endTime))
                       ELSE bookings
        /\ reqs' = [reqs EXCEPT ![p] = Done("create", res)]
        /\ UNCHANGED <<rooms, now, util, users>>

rescheduleOutcome(bk, nowT, bookingId, startTime, endTime, userId) ==
    LET v == rescheduleValidate(startTime, endTime, nowT)
    IN  IF v # OK THEN v
        ELSE IF bookingId \notin DOMAIN bk THEN ErrBookingNotFound
        ELSE LET existingBooking == Load(bk[bookingId])
                 a == rescheduleAuthorize(existingBooking, userId, nowT)
             IN  IF a # OK THEN a
                 ELSE IF Cardinality(rescheduleFindOverlapping(bk, existingBooking.roomId,
                                        bookingId, startTime, endTime)) > 0
                      THEN ErrConflict
                 ELSE OK

rescheduleBooking(p, bookingId, startTime, endTime, userId) ==
    LET res == rescheduleOutcome(bookings, now, bookingId, startTime, endTime, userId)
    IN  /\ ~InFlight(p)
        /\ bookings' = IF res = OK
                       THEN rescheduleSave(bookings, bookingId, startTime, endTime)
                       ELSE bookings
        /\ reqs' = [reqs EXCEPT ![p] = Done("reschedule", res)]
        /\ UNCHANGED <<rooms, now, util, users>>

cancelOutcome(bk, nowT, bookingId, userId) ==
    IF bookingId \notin DOMAIN bk THEN ErrBookingNotFound
    ELSE cancelAuthorize(Load(bk[bookingId]), userId, nowT)

cancelBooking(p, bookingId, userId) ==
    LET res == cancelOutcome(bookings, now, bookingId, userId)
    IN  /\ ~InFlight(p)
        /\ bookings' = IF res = OK THEN cancelSave(bookings, bookingId) ELSE bookings
        /\ reqs' = [reqs EXCEPT ![p] = Done("cancel", res)]
        /\ UNCHANGED <<rooms, now, util, users>>

(***************************************************************************)
(* A request that has been received is handled: the same operations, with   *)
(* the arguments kept in the request slot next to the response             *)
(***************************************************************************)
\* a request as the controller receives it, before the service is called
Received(op, roomId, bookingId, startTime, endTime, userId) ==
    [Idle EXCEPT !.op = op, !.roomId = roomId, !.bookingId = bookingId,
                 !.startTime = startTime, !.endTime = endTime, !.userId = userId]

HandleCreate(p) ==
    /\ reqs[p].pc = "idle" /\ reqs[p].op = "create"
    /\ LET r == reqs[p]
           res == createOutcome(bookings, rooms, now, r.roomId, r.startTime, r.endTime)
       IN  /\ bookings' = IF res = OK
                          THEN Append(bookings, NewBooking(r.roomId, r.userId,
                                                           r.startTime, r.endTime))
                          ELSE bookings
           /\ reqs' = [reqs EXCEPT ![p].pc = "done", ![p].result = res]
    /\ UNCHANGED <<rooms, now, util, users>>

HandleReschedule(p) ==
    /\ reqs[p].pc = "idle" /\ reqs[p].op = "reschedule"
    /\ LET r == reqs[p]
           res == rescheduleOutcome(bookings, now, r.bookingId, r.startTime, r.endTime,
                                    r.userId)
       IN  /\ bookings' = IF res = OK
                          THEN rescheduleSave(bookings, r.bookingId, r.startTime, r.endTime)
                          ELSE bookings
           /\ reqs' = [reqs EXCEPT ![p].pc = "done", ![p].result = res]
    /\ UNCHANGED <<rooms, now, util, users>>

(***************************************************************************)
(* Room administration and the clock                                       *)
(***************************************************************************)
\* room.isActive = false; room.save() (404 and no write when the room is missing)
deactivateRoom(id) ==
    /\ id \in DOMAIN rooms
    /\ rooms' = [rooms EXCEPT ![id].isActive = FALSE]
    /\ UNCHANGED <<bookings, now, reqs, util, users>>

\* room.isActive = true; room.save()
activateRoom(id) ==
    /\ id \in DOMAIN rooms
    /\ rooms' = [rooms EXCEPT ![id].isActive = TRUE]
    /\ UNCHANGED <<bookings, now, reqs, util, users>>

\* Room.create({..., isActive: true}): the new document gets an id that no
\* document holds; an id outside the room collection that no booking refers
\* to stands for it
createRoom(id) ==
    /\ id \notin DOMAIN rooms
    /\ \A i \in DOMAIN bookings : bookings[i].roomId # id
    /\ rooms' = [r \in DOMAIN rooms \cup {id} |->
                    IF r = id THEN [isActive |-> TRUE] ELSE rooms[r]]
    /\ UNCHANGED <<bookings, now, reqs, util, users>>

\* the request bodies of updateRoom: isActive given, or only other fields
RoomPatches == {[isActive |-> TRUE], [isActive |-> FALSE], [name |-> "renamed"]}

\* Object.assign(room, parsed.data); room.save() (404 when the room is missing)
updateRoom(id, patch) ==
    /\ id \in DOMAIN rooms
    /\ rooms' = IF "isActive" \in DOMAIN patch
                THEN [rooms EXCEPT ![id].isActive = patch.isActive]
                ELSE rooms
    /\ UNCHANGED <<bookings, now, reqs, util, users>>

\* Room.findByIdAndDelete(id) (404 when the room is missing); the booking
\* collection is not touched
deleteRoomPermanent(id) ==
    /\ id \in DOMAIN rooms
    /\ rooms' = [r \in DOMAIN rooms \ {id} |-> rooms[r]]
    /\ UNCHANGED <<bookings, now, reqs, util, users>>

\* time passes: the clock moves on to the next instant of the grid T
Tick(T) ==
    /\ \E t \in T : t > now
    /\ now' = CHOOSE t \in T : t > now /\ \A t2 \in T : t2 > now => t <= t2
    /\ UNCHANGED <<bookings, rooms, reqs, util, users>>

\* no utility has been called
NoCall == [fn |-> "none", args |-> <<>>, out |-> FALSE]

\* a direct call isOverlapping(existingStart, existingEnd, newStart, newEnd)
CallIsOverlapping(existingStart, existingEnd, newStart, newEnd) ==
    /\ util' = [fn |-> "isOverlapping",
                args |-> <<existingStart, existingEnd, newStart, newEnd>>,
                out |-> isOverlapping(existingStart, existingEnd, newStart, newEnd)]
    /\ UNCHANGED <<bookings, rooms, now, reqs, users>>

(***************************************************************************)
(* calculateAvailableSlots                                                 *)
(***************************************************************************)
\* new Date(date).setHours(hour, 0, 0, 0): that hour of date's calendar day
setHours(date, hour) == DayOf(date) * MsPerDay + hour * MsPerHour

\* plausible slip: the bookings are not filtered by day
dayBookingsAll(bk, date) == bk

\* bookings.filter(b => new Date(b.startTime).toDateString() === date.toDateString())
dayBookings(bk, date) ==
    SelectSeq(bk, LAMBDA booking : DayOf(booking.startTime) = DayOf(date))

\* plausible slip: the slot test takes the intervals as closed
isOccupiedClosed(bookedRanges, slotStart, slotEnd) ==
    \E i \in DOMAIN bookedRanges :
        slotStart <= bookedRanges[i].endTime /\ slotEnd >= bookedRanges[i].startTime

\* bookedRanges.some(booked => slotStart < booked.end && slotEnd > booked.start)
isOccupied(bookedRanges, slotStart, slotEnd) ==
    \E i \in DOMAIN bookedRanges :
        slotStart < bookedRanges[i].endTime /\ slotEnd > bookedRanges[i].startTime

\* the loop: for (time = dayStart; time < dayEnd; time += slotDurationMinutes * 60000)
RECURSIVE slotsFrom(_, _, _, _)
slotsFrom(time, dayEnd, slotDurationMinutes, bookedRanges) ==
    IF ~(time < dayEnd) THEN <<>>
    ELSE LET slotStart == time
             slotEnd == time + slotDurationMinutes * 60000
             rest == slotsFrom(time + slotDurationMinutes * 60000, dayEnd,
                               slotDurationMinutes, bookedRanges)
         IN  IF ~isOccupied(bookedRanges, slotStart, slotEnd)
             THEN <<[start |-> slotStart, end |-> slotEnd,
                     durationMinutes |-> slotDurationMinutes]>> \o rest
             ELSE rest

\* plausible slip: the loop runs while time <= dayEnd
calculateAvailableSlotsInclusiveEnd(bk, date, openingHour, closingHour, slotDurationMinutes) ==
    slotsFrom(setHours(date, openingHour), setHours(date, closingHour) + 1,
              slotDurationMinutes, dayBookings(bk, date))

calculateAvailableSlots(bk, date, openingHour, closingHour, slotDurationMinutes) ==
    LET dayStart == setHours(date, openingHour)
        dayEnd == setHours(date, closingHour)
        bookedRanges == dayBookings(bk, date)
    IN  slotsFrom(dayStart, dayEnd, slotDurationMinutes, bookedRanges)

\* a call calculateAvailableSlots(...) that has been made and not yet answered
PendingSlotsCall(args) ==
    [fn |-> "call calculateAvailableSlots", args |-> args, out |-> FALSE]

\* the call returns
ReturnCalculateAvailableSlots ==
    /\ util.fn = "call calculateAvailableSlots"
    /\ util' = [fn |-> "calculateAvailableSlots", args |-> util.args,
                out |-> calculateAvailableSlots(util.args[1], util.args[2], util.args[3],
                                                util.args[4], util.args[5])]
    /\ UNCHANGED <<bookings, rooms, now, reqs, users>>

(***************************************************************************)
(* Availability reads                                                      *)
(***************************************************************************)
\* what a read answers: the message of the error thrown ("none" when it
\* returns) and the value returned
Threw(message) == [error |-> message, value |-> FALSE]
Returned(value) == [error |-> "none", value |-> value]

ErrRoomInactiveRead == "Room is inactive"

\* booking.service.ts checkRoomAvailability(roomId, startTime, endTime,
\* excludeBookingId?): excludeBookingId 0 stands for a call without it
checkRoomAvailability(bk, roomId, startTime, endTime, excludeBookingId) ==
    LET overlappingBookings ==
            {i \in DOMAIN bk :
                /\ bk[i].roomId = roomId
                /\ bk[i].status \in {"confirmed", "active", "pending"}
                /\ bk[i].startTime < endTime /\ bk[i].endTime > startTime
                /\ (excludeBookingId # 0 => i # excludeBookingId)}
    IN  Returned(Cardinality(overlappingBookings) = 0)

\* room.service.ts isTimeSlotAvailable(roomId, startTime, endTime,
\* excludeBookingId?), called with arguments that pass the schema
isTimeSlotAvailable(bk, roomId, startTime, endTime, excludeBookingId) ==
    IF startTime >= endTime THEN Threw(ErrStartBeforeEnd)
    ELSE LET conflictingBookings ==
                 {i \in DOMAIN bk :
                     /\ bk[i].roomId = roomId
                     /\ bk[i].startTime < endTime
                     /\ bk[i].endTime > startTime
                     /\ bk[i].status \in {"confirmed", "pending"}
                     /\ (excludeBookingId # 0 => i # excludeBookingId)}
         IN  Returned(Cardinality(conflictingBookings) = 0)

\* room.service.ts getBookingsForRoom(roomId, date): the bookings of the room
\* that begin and end within the day; date is the number of the day (the
\* source's YYYY-MM-DD string).  The bookings of one room and day come out in
\* the order of their start times
RECURSIVE SortByStart(_)
SortByStart(S) ==
    IF S = {} THEN <<>>
    ELSE LET b == CHOOSE x \in S : \A y \in S : x.startTime <= y.startTime
         IN  <<b>> \o SortByStart(S \ {b})

getBookingsForRoom(bk, roomId, date) ==
    LET startOfDay == date * MsPerDay
        endOfDay == date * MsPerDay + MsPerDay - 1
    IN  SortByStart({[startTime |-> bk[i].startTime, endTime |-> bk[i].endTime, id |-> i] :
                        i \in {j \in DOMAIN bk :
                                  /\ bk[j].roomId = roomId
                                  /\ bk[j].startTime >= startOfDay
                                  /\ bk[j].endTime <= endOfDay
                                  /\ bk[j].status \in {"confirmed", "pending"}}})

\* room.service.ts checkSingleRoomAvailability(roomId, date) with the default
\* options: the room checks, then the free slots of the day; the value
\* returned is reduced to its availableSlots
checkSingleRoomAvailability(rm, bk, roomId, date) ==
    IF roomId \notin DOMAIN rm THEN Threw(ErrRoomNotFound)
    ELSE IF ~rm[roomId].isActive THEN Threw(ErrRoomInactiveRead)
    ELSE Returned(calculateAvailableSlots(getBookingsForRoom(bk, roomId, date),
                                          date * MsPerDay, 9, 18, 30))

CallCheckRoomAvailability(roomId, startTime, endTime) ==
    /\ util' = [fn |-> "checkRoomAvailability", args |-> <<roomId, startTime, endTime>>,
                out |-> checkRoomAvailability(bookings, roomId, startTime, endTime, 0)]
    /\ UNCHANGED <<bookings, rooms, now, reqs, users>>

CallIsTimeSlotAvailable(roomId, startTime, endTime) ==
    /\ util' = [fn |-> "isTimeSlotAvailable", args |-> <<roomId, startTime, endTime>>,
                out |-> isTimeSlotAvailable(bookings, roomId, startTime, endTime, 0)]
    /\ UNCHANGED <<bookings, rooms, now, reqs, users>>

CallCheckSingleRoomAvailability(roomId, date) ==
    /\ util' = [fn |-> "checkSingleRoomAvailability", args |-> <<roomId, date>>,
                out |-> checkSingleRoomAvailability(rooms, bookings, roomId, date)]
    /\ UNCHANGED <<bookings, rooms, now, reqs, users>>

\* a client reads the free slots of a room on a date and asks the conflict
\* check of createBooking about each of them
PendingFreeCall(args) == [fn |-> "call checkSingleRoomAvailability", args |-> args, out |-> FALSE]

ReturnFreeSlotsChecked ==
    /\ util.fn = "call checkSingleRoomAvailability"
    /\ LET free == checkSingleRoomAvailability(rooms, bookings, util.args[1], util.args[2])
           slots == IF free.error = "none" THEN free.value ELSE <<>>
       IN  util' = [fn |-> "checkSingleRoomAvailability, checkRoomAvailability",
                    args |-> util.args,
                    out |-> [free |-> free,
                             checkRoomAvailability |->
                                [i \in DOMAIN slots |->
                                    checkRoomAvailability(bookings, util.args[1],
                                        slots[i].start, slots[i].end, 0)]]]
    /\ UNCHANGED <<bookings, rooms, now, reqs, users>>

\* booking.service.ts checkBookingConflict(roomId, startTime, endTime,
\* excludeBookingId?): excludeBookingId 0 stands for a call without it
checkBookingConflict(bk, roomId, startTime, endTime, excludeBookingId) ==
    LET conflictingBookings ==
            {i \in DOMAIN bk :
                /\ bk[i].roomId = roomId
                /\ bk[i].status \in {"confirmed", "active", "pending"}
                /\ bk[i].startTime < endTime /\ bk[i].endTime > startTime
                /\ (excludeBookingId # 0 => i # excludeBookingId)}
    IN  [hasConflict |-> Cardinality(conflictingBookings) > 0,
         conflictingBookings |-> conflictingBookings]

\* one confirmed booking of room r1 with the window [existingStart, existingEnd)
OneBooking(existingStart, existingEnd) ==
    [roomId |-> "r1", userId |-> "u1", startTime |-> existingStart,
     endTime |-> existingEnd, status |-> "confirmed"]

\* every overlap test of the services is asked whether the booking
\* [existingStart, existingEnd) of room r1 meets [newStart, newEnd); for
\* rescheduleBooking the booking moved is a second booking of the room
PendingOverlapCall(args) == [fn |-> "call overlap tests", args |-> args, out |-> FALSE]

ReturnOverlapTests ==
    /\ util.fn = "call overlap tests"
    /\ LET existingStart == util.args[1]
           existingEnd == util.args[2]
           newStart == util.args[3]
           newEnd == util.args[4]
           b == OneBooking(existingStart, existingEnd)
       IN  util' = [fn |-> "overlap tests", args |-> util.args,
                    out |-> [createBooking |->
                                createFindOverlapping(<<b>>, "r1", newStart, newEnd) # {},
                             rescheduleBooking |->
                                rescheduleFindOverlapping(<<b, b>>, "r1", 2,
                                                          newStart, newEnd) # {},
                             checkRoomAvailability |->
                                ~checkRoomAvailability(<<b>>, "r1", newStart, newEnd, 0).value,
                             checkBookingConflict |->
                                checkBookingConflict(<<b>>, "r1", newStart, newEnd,
                                                     0).hasConflict,
                             calculateAvailableSlots |->
                                isOccupied(<<[startTime |-> existingStart,
                                              endTime |-> existingEnd]>>, newStart, newEnd),
                             isOverlapping |->
                                isOverlapping(existingStart, existingEnd, newStart, newEnd)]]
    /\ UNCHANGED <<bookings, rooms, now, reqs, users>>

\* every conflict check of the services is asked about the same room,
\* window and excluded booking id in the same store
PendingConflictCall(args) == [fn |-> "call conflict checks", args |-> args, out |-> FALSE]

ReturnConflictChecks ==
    /\ util.fn = "call conflict checks"
    /\ LET roomId == util.args[1]
           startTime == util.args[2]
           endTime == util.args[3]
           excludeBookingId == util.args[4]
       IN  util' = [fn |-> "conflict checks", args |-> util.args,
                    out |-> [checkRoomAvailability |->
                                checkRoomAvailability(bookings, roomId, startTime, endTime,
                                                      excludeBookingId),
                             isTimeSlotAvailable |->
                                isTimeSlotAvailable(bookings, roomId, startTime, endTime,
                                                    excludeBookingId),
                             checkBookingConflict |->
                                checkBookingConflict(bookings, roomId, startTime, endTime,
                                                     excludeBookingId),
                             createBooking |->
                                Cardinality(createFindOverlapping(bookings, roomId,
                                                startTime, endTime)) > 0,
                             rescheduleBooking |->
                                Cardinality(rescheduleFindOverlapping(bookings, roomId,
                                                excludeBookingId, startTime, endTime)) > 0]]
    /\ UNCHANGED <<bookings, rooms, now, reqs, users>>

ErrOpeningHour == "Opening hour must be before closing hour"

\* room.service.ts checkRoomAvailability, allBookings: the bookings of every
\* room that begin and end within the day, confirmed or pending, by start
allBookingsOfDay(bk, date) ==
    LET startOfDay == setHours(date * MsPerDay, 0)
        endOfDay == setHours(date * MsPerDay, 23) + 59 * MsPerMinute + 59 * MsPerSecond + 999
    IN  SortByStart({[startTime |-> bk[i].startTime, endTime |-> bk[i].endTime,
                      roomId |-> bk[i].roomId, id |-> i] :
                        i \in {j \in DOMAIN bk :
                                  /\ bk[j].startTime >= startOfDay
                                  /\ bk[j].endTime <= endOfDay
                                  /\ bk[j].status \in {"confirmed", "pending"}}})

\* plausible slip: every room is given the bookings of all rooms
roomBookingsUnfiltered(allBookings, roomId) == allBookings

\* allBookings.filter(booking => booking.roomId.toString() === room._id.toString())
roomBookings(allBookings, roomId) ==
    SelectSeq(allBookings, LAMBDA booking : booking.roomId = roomId)

\* Room.find(roomQuery).sort({ name: 1 }): the rooms in the order of their
\* names, which is taken to be r1, r2
RECURSIVE SortRooms(_)
SortRooms(S) ==
    IF S = {} THEN <<>>
    ELSE LET r == IF "r1" \in S THEN "r1" ELSE CHOOSE x \in S : TRUE
         IN  <<r>> \o SortRooms(S \ {r})

\* room.service.ts checkRoomAvailability(date, {openingHour, closingHour,
\* slotDuration, includeInactiveRooms}), with arguments that pass the schema;
\* an entry is reduced to the room's id, its availableSlots and totalBookings
roomServiceCheckRoomAvailability(rm, bk, date, openingHour, closingHour, slotDuration, includeInactiveRooms) ==
    IF openingHour >= closingHour THEN Threw(ErrOpeningHour)
    ELSE LET found == SortRooms({r \in DOMAIN rm : includeInactiveRooms \/ rm[r].isActive})
             allBookings == allBookingsOfDay(bk, date)
         IN  Returned([k \in DOMAIN found |->
                 LET mine == roomBookings(allBookings, found[k])
                 IN  [room |-> found[k],
                      availableSlots |-> calculateAvailableSlots(mine, date * MsPerDay,
                                             openingHour, closingHour, slotDuration),
                      totalBookings |-> Len(mine)]])

PendingRoomsCall(args) == [fn |-> "call checkRoomAvailability", args |-> args, out |-> FALSE]

ReturnRoomServiceCheckRoomAvailability ==
    /\ util.fn = "call checkRoomAvailability"
    /\ util' = [fn |-> "room.service checkRoomAvailability", args |-> util.args,
                out |-> roomServiceCheckRoomAvailability(rooms, bookings, util.args[1],
                            util.args[2], util.args[3], util.args[4], util.args[5])]
    /\ UNCHANGED <<bookings, rooms, now, reqs, users>>

(***************************************************************************)
(* Registration                                                            *)
(***************************************************************************)
\* email addresses as clients send them
Emails == {"ann@x.io", "Ann@x.io", "bob@x.io", "cy@x.io"}

\* the schema option lowercase: true on email, applied to the value a
\* document is given and to the value of a query filter
toLowerCase(email) == IF email = "Ann@x.io" THEN "ann@x.io" ELSE email

ErrUserExists == "User already exists"
\* the error of the unique index on email
ErrDuplicateKey == "E11000 duplicate key error"

\* plausible slip: the lookup finds nobody
findOneByEmailNobody(us, email) == {}

\* User.findOne({ email })
findOneByEmail(us, email) == {i \in DOMAIN us : us[i].email = toLowerCase(email)}

\* new User({ email, role: userData.role || 'user' }); role "none" stands for
\* a call without a role
NewUser(email, role) ==
    [email |-> toLowerCase(email), role |-> IF role = "none" THEN "user" ELSE role]

\* what registerUser returns or throws in the store us
registerOutcome(us, email) ==
    IF findOneByEmail(us, email) # {} THEN ErrUserExists
    ELSE IF \E i \in DOMAIN us : us[i].email = NewUser(email, "none").email
         THEN ErrDuplicateKey
    ELSE OK

\* AuthService.registerUser run to completion
registerUser(p, email, role) ==
    LET res == registerOutcome(users, email)
    IN  /\ ~InFlight(p)
        /\ users' = IF res = OK THEN Append(users, NewUser(email, role)) ELSE users
        /\ reqs' = [reqs EXCEPT ![p] = Done("register", res)]
        /\ UNCHANGED <<bookings, rooms, now, util>>

(***************************************************************************)
(* Initial states                                                          *)
(***************************************************************************)
\* an empty booking collection, every room active (the schema default)
Init ==
    /\ users = <<>>
    /\ bookings = <<>>
    /\ rooms = [r \in RoomIds |-> [isActive |-> TRUE]]
    /\ now = T0
    /\ reqs = [p \in Procs |-> Idle]
    /\ util = NoCall

\* documents the collection may hold from before: the schema admits the
\* statuses pending (its default) and active, which createBooking never writes
SeedBookings ==
    {b \in [roomId : {"r1"}, userId : {"u1"}, startTime : Times, endTime : Times,
             status : {"pending", "active"}] : b.startTime < b.endTime}

\* a store with no overlapping live bookings: empty, or one earlier document
InitSeq ==
    /\ users = <<>>
    /\ bookings \in {<<>>} \cup {<<b>> : b \in SeedBookings}
    /\ rooms = [r \in RoomIds |-> [isActive |-> TRUE]]
    /\ now = T0
    /\ reqs = [p \in Procs |-> Idle]
    /\ util = NoCall

(***************************************************************************)
(* Specifications                                                          *)
(***************************************************************************)
BookingIds == 1..MaxBookings

\* the store has room for one more document
HasRoom(max) == Len(bookings) < max

\* a createBooking call that the store has room for, or that fails
Fits(max, roomId, startTime, endTime) ==
    HasRoom(max) \/ createOutcome(bookings, rooms, now, roomId, startTime, endTime) # OK

\* a new request takes the lowest free request slot
FreeSlot(p) == ~InFlight(p) /\ (p = "p2" => InFlight("p1"))

\* Spec: two requests of one user whose repository calls interleave
\* arbitrarily, on one room
Next ==
    \/ \E p \in Procs, s \in Times, e \in Times :
            FreeSlot(p) /\ CreateStart(p, "r1", s, e, "u1")
    \/ \E p \in Procs : CreateFindRoom(p)
    \/ \E p \in Procs : CreateFindOverlap(p)
    \/ \E p \in Procs : HasRoom(MaxBookings) /\ CreateSave(p)
    \/ \E p \in Procs, id \in BookingIds, s \in Times, e \in Times :
            FreeSlot(p) /\ RescheduleStart(p, id, s, e, "u1")
    \/ \E p \in Procs : RescheduleFindBooking(p)
    \/ \E p \in Procs : RescheduleCheckAdmin(p)
    \/ \E p \in Procs : RescheduleFindOverlap(p)
    \/ \E p \in Procs : RescheduleSave(p)
    \/ \E p \in Procs, id \in BookingIds : FreeSlot(p) /\ CancelStart(p, id, "u1")
    \/ \E p \in Procs : CancelFindBooking(p)
    \/ \E p \in Procs : CancelCheckAdmin(p)
    \/ \E p \in Procs : CancelSave(p)
    \/ Tick(Times)

Spec == Init /\ [][Next]_vars

\* SpecSeq: every call runs to completion before the next one starts; user
\* u1 books either room, u1, u2 and the admin reschedule and cancel, and the
\* admin deactivates and reactivates room r1
NextSeq ==
    \/ \E r \in RoomIds \cup {NoRoomId}, s \in Times :
            \E e \in {t \in Times : t >= s} :
                Fits(MaxBookings, r, s, e) /\ createBooking("p1", r, s, e, "u1")
    \/ \E id \in BookingIds, s \in Times, u \in Users :
            \E e \in {t \in Times : t >= s} : rescheduleBooking("p1", id, s, e, u)
    \/ \E id \in BookingIds, u \in Users : cancelBooking("p1", id, u)
    \/ deactivateRoom("r1")
    \/ activateRoom("r1")
    \/ Tick(Times)

SpecSeq == InitSeq /\ [][NextSeq]_vars

\* SpecEdge: calls that run to completion, with instants at the limits of
\* the validation rules, on one room and on the id of no room
NextEdge ==
    \/ \E r \in {"r1", NoRoomId}, s \in EdgeTimes, e \in EdgeTimes :
            Fits(MaxEdgeBookings, r, s, e) /\ createBooking("p1", r, s, e, "u1")
    \/ \E id \in 1..MaxEdgeBookings, s \in EdgeTimes, e \in EdgeTimes :
            rescheduleBooking("p1", id, s, e, "u1")
    \/ \E id \in 1..MaxEdgeBookings : cancelBooking("p1", id, "u1")
    \/ Tick(EdgeTimes)

SpecEdge == Init /\ [][NextEdge]_vars

\* SpecAdmin: calls that run to completion; user u1 books, reschedules and
\* cancels in either room, and the admin creates, updates, deactivates,
\* activates and deletes rooms
NextAdmin ==
    \/ \E r \in RoomIds, s \in Times :
            \E e \in {t \in Times : t >= s} :
                Fits(MaxAdminBookings, r, s, e) /\ createBooking("p1", r, s, e, "u1")
    \/ \E id \in 1..MaxAdminBookings, s \in Times :
            \E e \in {t \in Times : t >= s} : rescheduleBooking("p1", id, s, e, "u1")
    \/ \E id \in 1..MaxAdminBookings : cancelBooking("p1", id, "u1")
    \/ \E id \in RoomIds : createRoom(id)
    \/ \E id \in RoomIds, patch \in RoomPatches : updateRoom(id, patch)
    \/ \E id \in RoomIds : deactivateRoom(id)
    \/ \E id \in RoomIds : activateRoom(id)
    \/ \E id \in RoomIds : deleteRoomPermanent(id)
    \/ Tick(Times)

SpecAdmin == Init /\ [][NextAdmin]_vars

\* SpecUtil: direct calls of the date utilities, on instants 0, 29, 30 and 60
\* minutes after T0
UtilTimes == {T0, T0 + 29 * MsPerMinute, T0 + 30 * MsPerMinute, T0 + 60 * MsPerMinute}

NextUtil ==
    \E a \in UtilTimes, b \in UtilTimes, c \in UtilTimes, d \in UtilTimes :
        CallIsOverlapping(a, b, c, d)

SpecUtil == Init /\ [][NextUtil]_vars

\* SpecSlots: calls of calculateAvailableSlots for a date of day 1, with
\* bookings that lie on day 1, or start on day 0 or end on day 2
Day1 == MsPerDay
SlotInstants ==
    {Day1 - MsPerHour, Day1 + 9 * MsPerHour, Day1 + 10 * MsPerHour,
     Day1 + 10 * MsPerHour + 30 * MsPerMinute, Day1 + 11 * MsPerHour,
     Day1 + 18 * MsPerHour, Day1 + 25 * MsPerHour}
SlotWindows ==
    {w \in [startTime : SlotInstants, endTime : SlotInstants] : w.startTime < w.endTime}
\* the bookings argument: up to max windows
SlotBookings(max) ==
    UNION {[1..n -> SlotWindows] : n \in 0..max}
\* date, and <<openingHour, closingHour, slotDurationMinutes>>
SlotDates == {Day1, Day1 + 10 * MsPerHour}
SlotParams == {<<9, 18, 30>>, <<9, 18, 60>>, <<10, 12, 45>>, <<18, 9, 30>>, <<9, 9, 30>>}

InitSlots ==
    /\ users = <<>>
    /\ bookings = <<>>
    /\ rooms = [r \in RoomIds |-> [isActive |-> TRUE]]
    /\ now = T0
    /\ reqs = [p \in Procs |-> Idle]
    /\ \E bk \in SlotBookings(MaxSlotBookings), date \in SlotDates, q \in SlotParams :
            util = PendingSlotsCall(<<bk, date, q[1], q[2], q[3]>>)

NextSlots == ReturnCalculateAvailableSlots

SpecSlots == InitSlots /\ [][NextSlots]_vars

\* SpecReads: bookings of room r1 are created, the room is deactivated and
\* reactivated, and the availability of r1 and of the id of no room is read
NextReads ==
    \/ \E s \in Times, e \in Times :
            Fits(MaxBookings, "r1", s, e) /\ createBooking("p1", "r1", s, e, "u1")
    \/ deactivateRoom("r1")
    \/ activateRoom("r1")
    \/ \E r \in {"r1", NoRoomId}, s \in Times, e \in Times :
            CallCheckRoomAvailability(r, s, e)
    \/ \E r \in {"r1", NoRoomId}, s \in Times, e \in Times :
            CallIsTimeSlotAvailable(r, s, e)
    \/ \E r \in {"r1", NoRoomId} : CallCheckSingleRoomAvailability(r, DayOf(T0))

SpecReads == Init /\ [][NextReads]_vars

\* SpecAuth: registrations that each run to completion
NextAuth ==
    \E email \in Emails, role \in {"none", "user", "admin"} : registerUser("p1", email, role)

SpecAuth == Init /\ [][NextAuth]_vars

\* SpecOrder: one request, received in a store that earlier calls have left,
\* is handled.  The instants are T0, a second later, half an hour after that
\* and more than 120 hours later; the store holds bookings of u1 in room r1,
\* confirmed or cancelled, the live ones not overlapping; r1 is active or
\* not; the clock is at one of the first two instants
OrderTimes == {EdgeA0, EdgeA1, EdgeB30, EdgeD}
OrderBookings ==
    {b \in [roomId : {"r1"}, userId : {"u1"}, startTime : OrderTimes, endTime : OrderTimes,
            status : {"confirmed", "cancelled"}] :
        /\ b.startTime < b.endTime
        /\ isValidBookingDuration(b.startTime, b.endTime, DefaultMaxHours, DefaultMinMinutes)}
OrderStores(max) ==
    {bk \in UNION {[1..n -> OrderBookings] : n \in 0..max} :
        \A i \in DOMAIN bk, j \in DOMAIN bk :
            (i # j /\ bk[i].status # "cancelled" /\ bk[j].status # "cancelled")
            => ~isOverlapping(bk[i].startTime, bk[i].endTime, bk[j].startTime, bk[j].endTime)}
OrderRequests(max) ==
    {Received("create", r, 0, s, e, "u1") :
        r \in {"r1", NoRoomId}, s \in OrderTimes, e \in OrderTimes}
    \cup {Received("reschedule", "none", id, s, e, u) :
        id \in 1..(max + 1), s \in OrderTimes, e \in OrderTimes, u \in Users}

InitOrder ==
    /\ users = <<>>
    /\ bookings \in OrderStores(MaxOrderBookings)
    /\ rooms \in {[r \in RoomIds |-> [isActive |-> IF r = "r1" THEN a ELSE TRUE]] :
                    a \in BOOLEAN}
    /\ now \in {EdgeA0, EdgeA1}
    /\ reqs \in {[p \in Procs |-> IF p = "p1" THEN q ELSE Idle] :
                    q \in OrderRequests(MaxOrderBookings)}
    /\ util = NoCall

NextOrder ==
    \/ HandleCreate("p1")
    \/ HandleReschedule("p1")

SpecOrder == InitOrder /\ [][NextOrder]_vars

\* SpecOverlap: the overlap tests of the services, asked about every pair of
\* windows over the instants 0, 29, 30 and 60 minutes after T0
OverlapArgs ==
    {args \in UtilTimes \X UtilTimes \X UtilTimes \X UtilTimes : args[1] < args[2]}

InitOverlap ==
    /\ users = <<>>
    /\ bookings = <<>>
    /\ rooms = [r \in RoomIds |-> [isActive |-> TRUE]]
    /\ now = T0
    /\ reqs = [p \in Procs |-> Idle]
    /\ \E args \in OverlapArgs : util = PendingOverlapCall(args)

NextOverlap == ReturnOverlapTests

SpecOverlap == InitOverlap /\ [][NextOverlap]_vars

\* SpecConflict: the conflict checks of the services, asked in every store of
\* bookings of room r1 with any status of the schema (the live ones not
\* overlapping) about a room, a window and an excluded booking id (0: none)
ConflictBookings ==
    {b \in [roomId : {"r1"}, userId : {"u1"}, startTime : Times, endTime : Times,
            status : BookingStatus] : b.startTime < b.endTime}
ConflictStores(max) ==
    {bk \in UNION {[1..n -> ConflictBookings] : n \in 0..max} :
        \A i \in DOMAIN bk, j \in DOMAIN bk :
            (i # j /\ bk[i].status # "cancelled" /\ bk[j].status # "cancelled")
            => ~isOverlapping(bk[i].startTime, bk[i].endTime, bk[j].startTime, bk[j].endTime)}
ConflictArgs(max) ==
    {args \in RoomIds \X Times \X Times \X (0..max) : args[2] < args[3]}

InitConflict ==
    /\ users = <<>>
    /\ bookings \in ConflictStores(MaxConflictBookings)
    /\ rooms = [r \in RoomIds |-> [isActive |-> TRUE]]
    /\ now = T0
    /\ reqs = [p \in Procs |-> Idle]
    /\ \E args \in ConflictArgs(MaxConflictBookings) : util = PendingConflictCall(args)

NextConflict == ReturnConflictChecks

SpecConflict == InitConflict /\ [][NextConflict]_vars

\* SpecFree: the free slots of room r1 on day 1 are read and tested, in every
\* store of bookings of r1 with any status whose windows lie on day 1, or
\* start on day 0 or end on day 2 (the live ones not overlapping), with the
\* room active or not
FreeBookings ==
    {b \in [roomId : {"r1"}, userId : {"u1"}, startTime : SlotInstants,
            endTime : SlotInstants, status : BookingStatus] : b.startTime < b.endTime}
FreeStores(max) ==
    {bk \in UNION {[1..n -> FreeBookings] : n \in 0..max} :
        \A i \in DOMAIN bk, j \in DOMAIN bk :
            (i # j /\ bk[i].status # "cancelled" /\ bk[j].status # "cancelled")
            => ~isOverlapping(bk[i].startTime, bk[i].endTime, bk[j].startTime, bk[j].endTime)}

InitFree ==
    /\ users = <<>>
    /\ bookings \in FreeStores(MaxFreeBookings)
    /\ rooms \in [RoomIds -> [isActive : BOOLEAN]]
    /\ now = T0
    /\ reqs = [p \in Procs |-> Idle]
    /\ util = PendingFreeCall(<<"r1", DayOf(Day1)>>)

NextFree == ReturnFreeSlotsChecked

SpecFree == InitFree /\ [][NextFree]_vars

\* SpecRooms: the availability of all rooms on day 0 is read, in every store
\* of bookings of rooms r1 and r2 with any status (the live ones of one room
\* not overlapping), with each room active or not
RoomsBookings ==
    {b \in [roomId : RoomIds, userId : {"u1"}, startTime : Times, endTime : Times,
            status : BookingStatus] : b.startTime < b.endTime}
RoomsStores(max) ==
    {bk \in UNION {[1..n -> RoomsBookings] : n \in 0..max} :
        \A i \in DOMAIN bk, j \in DOMAIN bk :
            (/\ i # j /\ bk[i].roomId = bk[j].roomId
             /\ bk[i].status # "cancelled" /\ bk[j].status # "cancelled")
            => ~isOverlapping(bk[i].startTime, bk[i].endTime, bk[j].startTime, bk[j].endTime)}
\* <<date, openingHour, closingHour, slotDuration, includeInactiveRooms>>
RoomsArgs == {<<DayOf(T0), 9, 18, 30, FALSE>>, <<DayOf(T0), 9, 18, 30, TRUE>>,
              <<DayOf(T0), 18, 9, 30, FALSE>>}

InitRooms ==
    /\ users = <<>>
    /\ bookings \in RoomsStores(MaxRoomsBookings)
    /\ rooms \in [RoomIds -> [isActive : BOOLEAN]]
    /\ now = T0
    /\ reqs = [p \in Procs |-> Idle]
    /\ \E args \in RoomsArgs : util = PendingRoomsCall(args)

NextRooms == ReturnRoomServiceCheckRoomAvailability

SpecRooms == InitRooms /\ [][NextRooms]_vars


(***************************************************************************)
(* Properties                                                              *)
(***************************************************************************)
\* the statuses under which a booking occupies its room, as the data model
\* states them
Occupying == {"pending", "confirmed", "active"}

\* two windows [s1, e1) and [s2, e2) share an instant
Meet(s1, e1, s2, e2) == s1 < e2 /\ s2 < e1

\* no two distinct occupying bookings of one room share an instant
LiveOverlapFree(bk) ==
    \A i \in DOMAIN bk, j \in DOMAIN bk :
        (/\ i # j
         /\ bk[i].roomId = bk[j].roomId
         /\ bk[i].status \in Occupying
         /\ bk[j].status \in Occupying)
        => ~Meet(bk[i].startTime, bk[i].endTime, bk[j].startTime, bk[j].endTime)

\* a window the validation rules accept at instant t: start before end, a
\* length from 30 minutes to 120 hours, and a start not before t
ValidWindow(s, e, t) ==
    /\ s < e
    /\ e - s >= 30 * 60 * 1000
    /\ e - s <= 120 * 60 * 60 * 1000
    /\ s >= t

\* the occupying bookings of room r, other than booking x, that share an
\* instant with [s, e)
Blockers(bk, r, x, s, e) ==
    {i \in DOMAIN bk :
        /\ i # x
        /\ bk[i].roomId = r
        /\ bk[i].status \in Occupying
        /\ Meet(bk[i].startTime, bk[i].endTime, s, e)}

\* C1: when every call runs to completion before the next one starts, and
\* the store starts without overlapping live bookings, no two distinct live
\* bookings of one room ever overlap.
C1_NoDoubleBookingSeq == LiveOverlapFree(bookings)

\* C1 witness: a reschedule has just succeeded and one room holds two live
\* bookings.
C1_Witness ==
    /\ reqs["p1"] = Done("reschedule", OK)
    /\ \E i \in DOMAIN bookings, j \in DOMAIN bookings :
          /\ i # j
          /\ bookings[i].roomId = bookings[j].roomId
          /\ bookings[i].status \in Occupying
          /\ bookings[j].status \in Occupying

\* C2 (as claimed): after two createBooking requests whose repository calls
\* interleave have both returned a booking, the room holds no two
\* overlapping live bookings.
C2_InterleavedCreatesNoDoubleBooking ==
    (reqs["p1"] = Done("create", OK) /\ reqs["p2"] = Done("create", OK))
        => LiveOverlapFree(bookings)


\* C3 (as claimed): when a save of createBooking or rescheduleBooking finds
\* in the store a live booking of the same room that overlaps its window
\* (written since its own overlap query, which found none), the operation
\* fails with ErrConflict and its write does not take effect.
C3_LateConflictSurfaces ==
    [][\A p \in Procs :
        (\/ /\ CreateSave(p)
            /\ Blockers(bookings, reqs[p].roomId, 0,
                        reqs[p].startTime, reqs[p].endTime) # {}
         \/ /\ RescheduleSave(p)
            /\ Blockers(bookings, reqs[p].doc.roomId, reqs[p].bookingId,
                        reqs[p].startTime, reqs[p].endTime) # {})
        => (reqs'[p].result = ErrConflict /\ bookings' = bookings)]_vars

\* C4: createBooking for an active room with an otherwise valid window that
\* overlaps a live booking of that room fails with ErrConflict and leaves
\* the bookings unchanged.
C4_OverlappingCreateRejected ==
    [][reqs'["p1"].op = "create" =>
        \A r \in RoomIds, s \in Times, e \in Times, u \in Users :
            (/\ ValidWindow(s, e, now)
             /\ r \in DOMAIN rooms /\ rooms[r].isActive
             /\ Blockers(bookings, r, 0, s, e) # {}
             /\ createBooking("p1", r, s, e, u))
            => (reqs'["p1"] = Done("create", ErrConflict) /\ bookings' = bookings)]_vars

\* C4 witness: a create has just been rejected with ErrConflict while an
\* active room holds a live booking.
C4_Witness ==
    /\ reqs["p1"] = Done("create", ErrConflict)
    /\ \E i \in DOMAIN bookings :
          /\ bookings[i].status \in Occupying
          /\ rooms[bookings[i].roomId].isActive

\* the cancelled bookings of room r that share an instant with [s, e)
CancelledMeeting(bk, r, s, e) ==
    {i \in DOMAIN bk :
        /\ bk[i].roomId = r
        /\ bk[i].status = "cancelled"
        /\ Meet(bk[i].startTime, bk[i].endTime, s, e)}

\* C5: a cancelled booking is never counted by the conflict check: whenever
\* createBooking or rescheduleBooking fails with ErrConflict, a booking that
\* is not cancelled (and is not the one being moved) overlaps the window in
\* that room; and an otherwise valid createBooking whose window overlaps
\* cancelled bookings only succeeds.
C5_CancelledDoNotBlock ==
    [][/\ reqs'["p1"] = Done("create", ErrConflict) =>
            \A r \in RoomIds, s \in Times, e \in Times, u \in Users :
                createBooking("p1", r, s, e, u) => Blockers(bookings, r, 0, s, e) # {}
       /\ reqs'["p1"].op = "create" =>
            \A r \in RoomIds, s \in Times, e \in Times, u \in Users :
                (/\ ValidWindow(s, e, now)
                 /\ r \in DOMAIN rooms /\ rooms[r].isActive
                 /\ CancelledMeeting(bookings, r, s, e) # {}
                 /\ Blockers(bookings, r, 0, s, e) = {}
                 /\ createBooking("p1", r, s, e, u))
                => /\ reqs'["p1"] = Done("create", OK)
                   /\ Len(bookings') = Len(bookings) + 1
       /\ reqs'["p1"] = Done("reschedule", ErrConflict) =>
            \A id \in BookingIds, s \in Times, e \in Times, u \in Users :
                rescheduleBooking("p1", id, s, e, u)
                => /\ id \in DOMAIN bookings
                   /\ Blockers(bookings, bookings[id].roomId, id, s, e) # {}]_vars

\* C5 witness: the last create succeeded and the new booking overlaps a
\* cancelled booking of its room.
C5_Witness ==
    /\ reqs["p1"] = Done("create", OK)
    /\ Len(bookings) >= 2
    /\ LET b == bookings[Len(bookings)]
       IN  CancelledMeeting(bookings, b.roomId, b.startTime, b.endTime) # {}

\* C6: createBooking with start < end, a length from 30 minutes to 120 hours,
\* a start not before the current instant, an existing active room and no
\* live booking of that room overlapping the window succeeds and adds exactly
\* one booking, with that room, window and requester and status confirmed,
\* changing no other booking.
C6_CreateSucceeds ==
    [][reqs'["p1"].op = "create" =>
        \A r \in RoomIds \cup {NoRoomId}, s \in Times, e \in Times, u \in Users :
            (/\ ValidWindow(s, e, now)
             /\ r \in DOMAIN rooms /\ rooms[r].isActive
             /\ Blockers(bookings, r, 0, s, e) = {}
             /\ createBooking("p1", r, s, e, u))
            => /\ reqs'["p1"] = Done("create", OK)
               /\ bookings' = Append(bookings,
                                  [roomId |-> r, userId |-> u, startTime |-> s,
                                   endTime |-> e, status |-> "confirmed"])]_vars

\* C6 witness: a create has just succeeded in a room that holds another live
\* booking.
C6_Witness ==
    /\ reqs["p1"] = Done("create", OK)
    /\ Len(bookings) >= 2
    /\ bookings[Len(bookings)].status = "confirmed"
    /\ \E i \in 1..(Len(bookings) - 1) :
          /\ bookings[i].roomId = bookings[Len(bookings)].roomId
          /\ bookings[i].status \in Occupying

\* C7: isOverlapping(existingStart, existingEnd, newStart, newEnd) is true
\* exactly when newStart < existingEnd and newEnd > existingStart; on two
\* intervals with start before end it gives the same answer with the
\* intervals exchanged; it is false for [0, 30) and [30, 60) and true for
\* [0, 30) and [29, 60) (minutes after T0).
C7_IsOverlapping ==
    util.fn = "isOverlapping" =>
        LET existingStart == util.args[1]
            existingEnd == util.args[2]
            newStart == util.args[3]
            newEnd == util.args[4]
        IN  /\ util.out <=> (newStart < existingEnd /\ newEnd > existingStart)
            /\ (existingStart < existingEnd /\ newStart < newEnd)
                 => (util.out <=> isOverlapping(newStart, newEnd, existingStart, existingEnd))
            /\ util.args = <<T0, T0 + 30 * 60 * 1000, T0 + 30 * 60 * 1000, T0 + 60 * 60 * 1000>>
                 => ~util.out
            /\ util.args = <<T0, T0 + 30 * 60 * 1000, T0 + 29 * 60 * 1000, T0 + 60 * 60 * 1000>>
                 => util.out

\* C7 witness: isOverlapping has answered true for [0, 30) and [29, 60).
C7_Witness ==
    /\ util.fn = "isOverlapping"
    /\ util.args = <<T0, T0 + 30 * 60 * 1000, T0 + 29 * 60 * 1000, T0 + 60 * 60 * 1000>>
    /\ util.out

\* a length the default limits refuse: below 30 minutes or above 120 hours
OutOfRange(s, e) == e - s < 30 * 60 * 1000 \/ e - s > 120 * 60 * 60 * 1000

\* C8: createBooking and rescheduleBooking reject with the duration error
\* every window with start < end that is shorter than 30 minutes or longer
\* than 120 hours, and reject no window of 30 minutes to 120 hours
\* (both included) with that error.
C8_DurationBounds ==
    [][/\ reqs'["p1"].op = "create" =>
            \A r \in {"r1", NoRoomId}, s \in EdgeTimes, e \in EdgeTimes :
                (s < e /\ createBooking("p1", r, s, e, "u1"))
                => (reqs'["p1"].result = ErrDuration <=> OutOfRange(s, e))
       /\ reqs'["p1"].op = "reschedule" =>
            \A id \in 1..MaxEdgeBookings, s \in EdgeTimes, e \in EdgeTimes :
                (s < e /\ rescheduleBooking("p1", id, s, e, "u1"))
                => (reqs'["p1"].result = ErrDuration <=> OutOfRange(s, e))]_vars

\* C8 witness: a booking of exactly 120 hours has been accepted and a
\* reschedule has just been rejected with the duration error.
C8_Witness ==
    /\ reqs["p1"] = Done("reschedule", ErrDuration)
    /\ Len(bookings) = 1
    /\ bookings[1].endTime - bookings[1].startTime = 120 * 60 * 60 * 1000

\* C9: isDateInPast(d) is true exactly when d is strictly before the current
\* instant, on the current calendar day and on any other; and createBooking
\* with an otherwise valid window is rejected with the past-booking error
\* exactly when its start is strictly before the current instant.
C9_PastRejection ==
    /\ [](\A d \in EdgeTimes : isDateInPast(d, now) <=> d < now)
    /\ [][reqs'["p1"].op = "create" =>
            \A r \in {"r1", NoRoomId}, s \in EdgeTimes, e \in EdgeTimes :
                (s < e /\ ~OutOfRange(s, e) /\ createBooking("p1", r, s, e, "u1"))
                => (reqs'["p1"].result = ErrCreatePast <=> s < now)]_vars

\* C9 witness: at one second past T0 the store holds a booking that starts
\* at that instant, and a create that starts one second earlier has just
\* been rejected with the past-booking error.
C9_Witness ==
    /\ now = EdgeA1
    /\ Len(bookings) = 1
    /\ bookings[1].startTime = EdgeA1
    /\ reqs["p1"] = Done("create", ErrCreatePast)

\* userId may reschedule the booking b: its owner, or an administrator
MayReschedule(b, userId) == b.userId = userId \/ UserRole[userId] = "admin"

\* C10 (as claimed): rescheduleBooking of booking X to a valid future window
\* that overlaps X's own window and no other live booking of X's room
\* succeeds.
C10_Original ==
    [][reqs'["p1"].op = "reschedule" =>
        \A id \in BookingIds, s \in Times, e \in Times, u \in Users :
            (/\ id \in DOMAIN bookings
             /\ ValidWindow(s, e, now)
             /\ Meet(bookings[id].startTime, bookings[id].endTime, s, e)
             /\ Blockers(bookings, bookings[id].roomId, id, s, e) = {}
             /\ rescheduleBooking("p1", id, s, e, u))
            => reqs'["p1"] = Done("reschedule", OK)]_vars

\* C10 (amended): rescheduleBooking of booking X, requested by X's owner or
\* an administrator while X's start is not before the current instant, to a
\* valid future window that overlaps X's own window and no other live
\* booking of X's room succeeds and moves X to that window; under the same
\* conditions on requester and X, the call fails with ErrConflict exactly
\* when a live booking of the room other than X overlaps the window.
C10_RescheduleSelfExclusion ==
    [][reqs'["p1"].op = "reschedule" =>
        \A id \in BookingIds, s \in Times, e \in Times, u \in Users :
            (/\ id \in DOMAIN bookings
             /\ ValidWindow(s, e, now)
             /\ MayReschedule(bookings[id], u)
             /\ bookings[id].startTime >= now
             /\ rescheduleBooking("p1", id, s, e, u))
            => /\ (/\ Meet(bookings[id].startTime, bookings[id].endTime, s, e)
                   /\ Blockers(bookings, bookings[id].roomId, id, s, e) = {})
                  => /\ reqs'["p1"] = Done("reschedule", OK)
                     /\ bookings' = [bookings EXCEPT ![id].startTime = s,
                                                     ![id].endTime = e]
               /\ reqs'["p1"].result = ErrConflict
                    <=> Blockers(bookings, bookings[id].roomId, id, s, e) # {}]_vars

\* C10 witness: a reschedule has just succeeded on the only booking of the
\* store, which now has the one-hour window that overlaps every window of
\* the grid.
C10_Witness ==
    /\ reqs["p1"] = Done("reschedule", OK)
    /\ Len(bookings) = 1
    /\ bookings[1].status \in Occupying
    /\ bookings[1].startTime = T0
    /\ bookings[1].endTime = T0 + 2 * TickMs

\* C11 (as claimed): rescheduleBooking and cancelBooking called by a
\* requester who is neither the booking's owner nor an administrator fail
\* with the not-authorized error and leave the bookings unchanged.
C11_Original ==
    [][/\ reqs'["p1"].op = "reschedule" =>
            \A id \in BookingIds, s \in Times, e \in Times, u \in Users :
                (/\ id \in DOMAIN bookings
                 /\ ~MayReschedule(bookings[id], u)
                 /\ rescheduleBooking("p1", id, s, e, u))
                => (reqs'["p1"].result = ErrRescheduleAuth /\ bookings' = bookings)
       /\ reqs'["p1"].op = "cancel" =>
            \A id \in BookingIds, u \in Users :
                (/\ id \in DOMAIN bookings
                 /\ ~MayReschedule(bookings[id], u)
                 /\ cancelBooking("p1", id, u))
                => (reqs'["p1"].result = ErrCancelAuth /\ bookings' = bookings)]_vars

\* C11 (amended): rescheduleBooking and cancelBooking called by a requester
\* who is neither the booking's owner nor an administrator fail and leave
\* the bookings unchanged; the error is the not-authorized error for
\* cancelBooking, and for rescheduleBooking whenever the new window is valid
\* (otherwise it is the error of the window).  So every change of a
\* booking's window or status was requested by its owner or an administrator.
C11_Authorization ==
    [][/\ reqs'["p1"].op = "reschedule" =>
            \A id \in BookingIds, s \in Times, e \in Times, u \in Users :
                (/\ id \in DOMAIN bookings
                 /\ ~MayReschedule(bookings[id], u)
                 /\ rescheduleBooking("p1", id, s, e, u))
                => /\ reqs'["p1"].result # OK
                   /\ bookings' = bookings
                   /\ ValidWindow(s, e, now) => reqs'["p1"].result = ErrRescheduleAuth
       /\ reqs'["p1"].op = "cancel" =>
            \A id \in BookingIds, u \in Users :
                (/\ id \in DOMAIN bookings
                 /\ ~MayReschedule(bookings[id], u)
                 /\ cancelBooking("p1", id, u))
                => (reqs'["p1"].result = ErrCancelAuth /\ bookings' = bookings)]_vars

\* C11 witness: a reschedule has just been refused as not authorized while
\* the store holds a live booking.
C11_Witness ==
    /\ reqs["p1"] = Done("reschedule", ErrRescheduleAuth)
    /\ \E i \in DOMAIN bookings : bookings[i].status \in Occupying

\* C12: a booking whose status is cancelled keeps that status through every
\* createBooking, rescheduleBooking and cancelBooking call, and the only
\* status change any call makes to an existing booking is to cancelled.
C12_CancelledIsTerminal ==
    [][\A i \in DOMAIN bookings :
        /\ i \in DOMAIN bookings'
        /\ bookings[i].status = "cancelled" => bookings'[i].status = "cancelled"
        /\ bookings'[i].status # bookings[i].status => bookings'[i].status = "cancelled"]_vars

\* C12 witness: the only booking of the store is cancelled and a reschedule
\* of it has just succeeded.
C12_Witness ==
    /\ reqs["p1"] = Done("reschedule", OK)
    /\ Len(bookings) = 1
    /\ bookings[1].status = "cancelled"

\* midnight at the start of the calendar day of instant t
Midnight(t) == (t \div (24 * 60 * 60 * 1000)) * (24 * 60 * 60 * 1000)

\* the instant h hours and m minutes after the midnight of date's day
At(date, h, m) == Midnight(date) + (h * 60 + m) * 60 * 1000

\* C13: calculateAvailableSlots with no bookings, openingHour 9, closingHour
\* 18 and 30-minute slots returns exactly 18 slots in chronological order,
\* the first [09:00, 09:30) and the last [17:30, 18:00) of the given day,
\* each slot beginning where the one before it ends.
C13_SlotCompleteness ==
    (/\ util.fn = "calculateAvailableSlots"
     /\ util.args[1] = <<>>
     /\ <<util.args[3], util.args[4], util.args[5]>> = <<9, 18, 30>>)
    => LET date == util.args[2]
           slots == util.out
       IN  /\ Len(slots) = 18
           /\ slots[1].start = At(date, 9, 0) /\ slots[1].end = At(date, 9, 30)
           /\ slots[18].start = At(date, 17, 30) /\ slots[18].end = At(date, 18, 0)
           /\ \A i \in 1..17 : slots[i].end = slots[i + 1].start
           /\ \A i \in 1..18 : slots[i].start < slots[i].end

\* C13 witness: the 18-slot answer for the date 10:00 of day 1.
C13_Witness ==
    /\ util.fn = "calculateAvailableSlots"
    /\ util.args = <<<<>>, 24 * 60 * 60 * 1000 + 10 * 60 * 60 * 1000, 9, 18, 30>>
    /\ Len(util.out) = 18

\* the starts of the candidate slots: openingHour of the day, then every
\* slotMinutes, while before closingHour
CandidateStarts(date, openingHour, closingHour, slotMinutes) ==
    {t \in {At(date, openingHour, k * slotMinutes) :
                k \in 0..(((closingHour - openingHour) * 60) \div slotMinutes)} :
        t < At(date, closingHour, 0)}

\* the candidate slot that starts at t overlaps no booking of bk that starts
\* on the calendar day of date
FreeCandidate(bk, date, t, slotMinutes) ==
    \A i \in DOMAIN bk :
        Midnight(bk[i].startTime) = Midnight(date)
        => ~Meet(t, t + slotMinutes * 60 * 1000, bk[i].startTime, bk[i].endTime)

\* C14: calculateAvailableSlots returns, in chronological order, exactly the
\* candidate slots [t, t + slotMinutes) that overlap (half-open) no booking
\* whose start is on the calendar day of the target date; bookings that start
\* on another day are ignored.  One booking [10:00, 11:00) removes exactly
\* the slots [10:00, 10:30) and [10:30, 11:00) from the 18 of a 9-18 day,
\* leaving 16.
C14_SlotExclusion ==
    util.fn = "calculateAvailableSlots" =>
        LET bk == util.args[1]
            date == util.args[2]
            slotMinutes == util.args[5]
            slots == util.out
            cand == CandidateStarts(date, util.args[3], util.args[4], slotMinutes)
        IN  /\ {slots[i].start : i \in DOMAIN slots}
                 = {t \in cand : FreeCandidate(bk, date, t, slotMinutes)}
            /\ \A i \in DOMAIN slots : slots[i].end = slots[i].start + slotMinutes * 60 * 1000
            /\ \A i \in DOMAIN slots, j \in DOMAIN slots :
                    i < j => slots[i].start < slots[j].start
            /\ (/\ bk = <<[startTime |-> At(date, 10, 0), endTime |-> At(date, 11, 0)]>>
                /\ <<util.args[3], util.args[4], slotMinutes>> = <<9, 18, 30>>)
               => /\ Len(slots) = 16
                  /\ {slots[i].start : i \in DOMAIN slots}
                       = CandidateStarts(date, 9, 18, 30) \ {At(date, 10, 0), At(date, 10, 30)}

\* C14 witness: a booking that starts on day 0 and runs to 10:30 of day 1 is
\* ignored, and a booking [10:30, 11:00) of day 1 removes its slot, leaving
\* 17 slots of which one ends at 10:30.
C14_Witness ==
    /\ util.fn = "calculateAvailableSlots"
    /\ util.args[1] =
          <<[startTime |-> 23 * 60 * 60 * 1000,
             endTime |-> 24 * 60 * 60 * 1000 + (10 * 60 + 30) * 60 * 1000],
            [startTime |-> 24 * 60 * 60 * 1000 + (10 * 60 + 30) * 60 * 1000,
             endTime |-> 24 * 60 * 60 * 1000 + 11 * 60 * 60 * 1000]>>
    /\ <<util.args[3], util.args[4], util.args[5]>> = <<9, 18, 30>>
    /\ Len(util.out) = 17
    /\ \E i \in DOMAIN util.out :
          util.out[i].end = 24 * 60 * 60 * 1000 + (10 * 60 + 30) * 60 * 1000

\* C15 (as claimed): createBooking for a room that does not exist fails with
\* the room-not-found error, and for a room that is not active with the
\* room-inactive error; in both cases no booking is added.
C15_Original ==
    [][reqs'["p1"].op = "create" =>
        \A r \in RoomIds \cup {NoRoomId}, s \in Times, e \in Times, u \in Users :
            createBooking("p1", r, s, e, u)
            => /\ r \notin DOMAIN rooms
                    => (reqs'["p1"].result = ErrRoomNotFound /\ bookings' = bookings)
               /\ (r \in DOMAIN rooms /\ ~rooms[r].isActive)
                    => (reqs'["p1"].result = ErrRoomInactive /\ bookings' = bookings)]_vars

\* C15 (amended): createBooking for a room that does not exist, or that is
\* not active when it is looked up, fails and adds no booking; when the
\* window is valid the error is the room-not-found error for a missing room
\* and the room-inactive error for an inactive one (an invalid window is
\* reported first).  So every booking createBooking adds is for a room that
\* was active when it was looked up.
C15_RoomMustBeBookable ==
    [][reqs'["p1"].op = "create" =>
        \A r \in RoomIds \cup {NoRoomId}, s \in Times, e \in Times, u \in Users :
            createBooking("p1", r, s, e, u)
            => /\ r \notin DOMAIN rooms
                    => /\ reqs'["p1"].result # OK /\ bookings' = bookings
                       /\ ValidWindow(s, e, now) => reqs'["p1"].result = ErrRoomNotFound
               /\ (r \in DOMAIN rooms /\ ~rooms[r].isActive)
                    => /\ reqs'["p1"].result # OK /\ bookings' = bookings
                       /\ ValidWindow(s, e, now) => reqs'["p1"].result = ErrRoomInactive
               /\ bookings' # bookings => (r \in DOMAIN rooms /\ rooms[r].isActive)]_vars

\* C15 witness: room r1 is deactivated and a create has just been refused
\* with the room-inactive error.
C15_Witness ==
    /\ ~rooms["r1"].isActive
    /\ reqs["p1"] = Done("create", ErrRoomInactive)

\* C16 (as claimed): checkRoomAvailability, isTimeSlotAvailable (asked about
\* a window with start before end) and checkSingleRoomAvailability throw a
\* not-found error when the room does not exist and a different, inactive
\* error when the room exists and is deactivated, and give no availability
\* answer in either case.
C16_AvailabilityReadsCheckRoom ==
    [][/\ \A r \in {"r1", NoRoomId}, s \in Times, e \in Times :
            (s < e /\ (CallCheckRoomAvailability(r, s, e) \/ CallIsTimeSlotAvailable(r, s, e)))
            => /\ r \notin DOMAIN rooms => util'.out.error = ErrRoomNotFound
               /\ (r \in DOMAIN rooms /\ ~rooms[r].isActive)
                    => util'.out.error \notin {"none", ErrRoomNotFound}
       /\ \A r \in {"r1", NoRoomId} :
            CallCheckSingleRoomAvailability(r, DayOf(T0))
            => /\ r \notin DOMAIN rooms => util'.out.error = ErrRoomNotFound
               /\ (r \in DOMAIN rooms /\ ~rooms[r].isActive)
                    => util'.out.error \notin {"none", ErrRoomNotFound}]_vars

\* no two stored users have the same email
UniqueEmails(us) ==
    \A i \in DOMAIN us, j \in DOMAIN us : i # j => us[i].email # us[j].email

\* C17: registerUser with an email that a stored user has fails with 'User
\* already exists' and adds no user; after any sequence of registrations that
\* run to completion no two stored users share an email.
C17_DuplicateRegistrationRejected ==
    /\ [](UniqueEmails(users))
    /\ [][reqs'["p1"].op = "register" =>
            \A email \in Emails, role \in {"none", "user", "admin"} :
                (/\ \E i \in DOMAIN users : users[i].email = email
                 /\ registerUser("p1", email, role))
                => (reqs'["p1"] = Done("register", "User already exists") /\ users' = users)]_vars

\* C17 witness: two users are stored and a registration has just been
\* refused with 'User already exists'.
C17_Witness ==
    /\ Len(users) = 2
    /\ reqs["p1"] = Done("register", "User already exists")

\* the first failing check of createBooking in the order: start not before
\* end, duration out of range, start in the past, room not found, room
\* inactive, conflict with a live booking
ExpectedCreate(bk, rm, t, r, s, e) ==
    IF s >= e THEN "Start time must be before end time"
    ELSE IF OutOfRange(s, e) THEN "Booking duration cannot exceed 24 hours"
    ELSE IF s < t THEN "Cannot book a room in the past"
    ELSE IF r \notin DOMAIN rm THEN "Room not found"
    ELSE IF ~rm[r].isActive THEN "Room is not available for booking"
    ELSE IF Blockers(bk, r, 0, s, e) # {} THEN "Room is already booked during this time"
    ELSE "ok"

\* C18: createBooking reports the first failing check in the order start not
\* before end, duration out of range, start in the past, room not found,
\* room inactive, conflict with a live booking (and succeeds when none fails).
C18_CreateErrorPrecedence ==
    [][HandleCreate("p1") =>
        reqs'["p1"].result = ExpectedCreate(bookings, rooms, now, reqs["p1"].roomId,
                                            reqs["p1"].startTime, reqs["p1"].endTime)]_vars

\* C18 witness: a create with start after end for the id of no room has
\* been answered with the start-before-end error.
C18_Witness ==
    /\ reqs["p1"].pc = "done" /\ reqs["p1"].op = "create"
    /\ reqs["p1"].roomId = NoRoomId
    /\ reqs["p1"].startTime > reqs["p1"].endTime
    /\ reqs["p1"].result = "Start time must be before end time"

\* the first failing check of rescheduleBooking in the order: new start not
\* before new end, new duration out of range, new start in the past, booking
\* not found, requester neither owner nor administrator, the booking's start
\* already in the past, conflict with another live booking of the room
ExpectedReschedule(bk, t, id, s, e, u) ==
    IF s >= e THEN "Start time must be before end time"
    ELSE IF OutOfRange(s, e) THEN "Booking duration cannot exceed 24 hours"
    ELSE IF s < t THEN "Cannot reschedule to a past time"
    ELSE IF id \notin DOMAIN bk THEN "Booking not found"
    ELSE IF ~MayReschedule(bk[id], u) THEN "Not authorized to reschedule this booking"
    ELSE IF bk[id].startTime < t THEN "Cannot reschedule a past booking"
    ELSE IF Blockers(bk, bk[id].roomId, id, s, e) # {}
         THEN "Room is already booked during this time"
    ELSE "ok"

\* C19: rescheduleBooking reports the first failing check in the order new
\* start not before new end, new duration out of range, new start in the
\* past, booking not found, requester not owner and not administrator,
\* existing booking's start in the past, conflict with another live booking
\* of the same room (and succeeds when none fails).
C19_RescheduleErrorPrecedence ==
    [][HandleReschedule("p1") =>
        reqs'["p1"].result = ExpectedReschedule(bookings, now, reqs["p1"].bookingId,
                                                reqs["p1"].startTime, reqs["p1"].endTime,
                                                reqs["p1"].userId)]_vars

\* C19 witness: a reschedule by a user who is neither owner nor administrator,
\* of a booking that has begun, to a window another live booking occupies,
\* has been answered with the not-authorized error.
C19_Witness ==
    /\ reqs["p1"].pc = "done" /\ reqs["p1"].op = "reschedule"
    /\ reqs["p1"].result = "Not authorized to reschedule this booking"
    /\ reqs["p1"].bookingId \in DOMAIN bookings
    /\ bookings[reqs["p1"].bookingId].startTime < now
    /\ Blockers(bookings, "r1", reqs["p1"].bookingId,
                reqs["p1"].startTime, reqs["p1"].endTime) # {}

\* C20 (as claimed): once the current instant is later than a booking's
\* start, no rescheduleBooking or cancelBooking changes its start, end or
\* status any more, also when the clock passes the booking's start between
\* the operation's past-time check and its save.
C20_BegunBookingFrozen ==
    [][\A i \in DOMAIN bookings :
        bookings[i].startTime < now
        => (i \in DOMAIN bookings' /\ bookings'[i] = bookings[i])]_vars

\* the bookings of bk2 that differ from the booking of the same id in bk1
Changed(bk1, bk2) == {i \in DOMAIN bk1 \cap DOMAIN bk2 : bk1[i] # bk2[i]}

\* C21: when createBooking, rescheduleBooking or cancelBooking ends with an
\* error, the stored bookings and rooms are what they were before the call;
\* a successful call writes one booking: createBooking adds one and changes
\* none, rescheduleBooking and cancelBooking add none and change no booking
\* but their target.
C21_NoResidueOnFailure ==
    [][/\ reqs'["p1"].op = "create" =>
            \A r \in RoomIds \cup {NoRoomId}, s \in Times, e \in Times :
                (e >= s /\ createBooking("p1", r, s, e, "u1"))
                => /\ rooms' = rooms
                   /\ reqs'["p1"].result # OK => bookings' = bookings
                   /\ reqs'["p1"].result = OK
                        => /\ Len(bookings') = Len(bookings) + 1
                           /\ Changed(bookings, bookings') = {}
       /\ reqs'["p1"].op = "reschedule" =>
            \A id \in BookingIds, s \in Times, e \in Times, u \in Users :
                (e >= s /\ rescheduleBooking("p1", id, s, e, u))
                => /\ rooms' = rooms
                   /\ reqs'["p1"].result # OK => bookings' = bookings
                   /\ reqs'["p1"].result = OK
                        => /\ Len(bookings') = Len(bookings)
                           /\ Changed(bookings, bookings') \subseteq {id}
       /\ reqs'["p1"].op = "cancel" =>
            \A id \in BookingIds, u \in Users :
                cancelBooking("p1", id, u)
                => /\ rooms' = rooms
                   /\ reqs'["p1"].result # OK => bookings' = bookings
                   /\ reqs'["p1"].result = OK
                        => /\ Len(bookings') = Len(bookings)
                           /\ Changed(bookings, bookings') \subseteq {id}]_vars

\* C21 witness: a create has just failed with the conflict error in a store
\* of two bookings, one of them cancelled.
C21_Witness ==
    /\ reqs["p1"] = Done("create", ErrConflict)
    /\ Len(bookings) = 2
    /\ \E i \in DOMAIN bookings : bookings[i].status = "cancelled"

\* C22: starting from an empty store, every stored booking, live or
\* cancelled, has start < end and a length from 30 minutes to 120 hours.
C22_WindowInvariant ==
    \A i \in DOMAIN bookings :
        /\ bookings[i].startTime < bookings[i].endTime
        /\ bookings[i].endTime - bookings[i].startTime >= 30 * 60 * 1000
        /\ bookings[i].endTime - bookings[i].startTime <= 120 * 60 * 60 * 1000

\* C22 witness: a reschedule has just succeeded and the booking has a window
\* of exactly 30 minutes.
C22_Witness ==
    /\ reqs["p1"] = Done("reschedule", OK)
    /\ Len(bookings) = 1
    /\ bookings[1].endTime - bookings[1].startTime = 30 * 60 * 1000

\* C23 (as claimed): a successful rescheduleBooking changes only its target's
\* start and end; a successful cancelBooking changes only its target's
\* status, to cancelled; neither adds, removes or touches another booking;
\* and a cancelled booking keeps the start and end it had when cancelled.
C23_InPlaceMutationFrame ==
    [][/\ reqs'["p1"] = Done("reschedule", OK) =>
            \A id \in BookingIds, s \in Times, e \in Times, u \in Users :
                rescheduleBooking("p1", id, s, e, u)
                => /\ Len(bookings') = Len(bookings)
                   /\ Changed(bookings, bookings') \subseteq {id}
                   /\ bookings'[id] = [bookings[id] EXCEPT !.startTime = s, !.endTime = e]
       /\ reqs'["p1"] = Done("cancel", OK) =>
            \A id \in BookingIds, u \in Users :
                cancelBooking("p1", id, u)
                => /\ Len(bookings') = Len(bookings)
                   /\ Changed(bookings, bookings') \subseteq {id}
                   /\ bookings'[id] = [bookings[id] EXCEPT !.status = "cancelled"]
       /\ \A i \in DOMAIN bookings :
            bookings[i].status = "cancelled"
            => /\ i \in DOMAIN bookings'
               /\ bookings'[i].startTime = bookings[i].startTime
               /\ bookings'[i].endTime = bookings[i].endTime]_vars

\* C24: for every booking window and every requested window the conflict
\* queries of createBooking, rescheduleBooking, checkRoomAvailability and
\* checkBookingConflict and the slot test of calculateAvailableSlots answer
\* as isOverlapping(existingStart, existingEnd, newStart, newEnd) does.
C24_SingleOverlapSemantics ==
    util.fn = "overlap tests" =>
        /\ util.out.isOverlapping
             <=> (util.args[3] < util.args[2] /\ util.args[4] > util.args[1])
        /\ util.out.createBooking = util.out.isOverlapping
        /\ util.out.rescheduleBooking = util.out.isOverlapping
        /\ util.out.checkRoomAvailability = util.out.isOverlapping
        /\ util.out.checkBookingConflict = util.out.isOverlapping
        /\ util.out.calculateAvailableSlots = util.out.isOverlapping

\* C24 witness: the tests have answered for a requested window that begins
\* where the booking ends, and for one that begins a minute earlier.
C24_Witness ==
    /\ util.fn = "overlap tests"
    /\ util.args[1] < util.args[2] /\ util.args[3] < util.args[4]
    /\ util.args[4] - util.args[3] = 30 * 60 * 1000
    /\ util.args[3] = util.args[2]
    /\ ~util.out.calculateAvailableSlots /\ ~util.out.createBooking

\* C25 (as claimed): in every store and for every room, window and optional
\* excluded booking id, checkRoomAvailability, isTimeSlotAvailable and the
\* negation of checkBookingConflict.hasConflict return the same boolean,
\* which is the decision of the conflict step of createBooking (nothing
\* excluded) and of rescheduleBooking (the moved booking excluded); each is
\* true exactly when no booking of the room with a status in {pending,
\* confirmed, active}, other than the excluded one, overlaps the window.
C25_OneCanonicalConflictCheck ==
    util.fn = "conflict checks" =>
        LET free == Blockers(bookings, util.args[1], util.args[4],
                             util.args[2], util.args[3]) = {}
        IN  /\ util.out.checkRoomAvailability = [error |-> "none", value |-> free]
            /\ util.out.isTimeSlotAvailable = [error |-> "none", value |-> free]
            /\ util.out.checkBookingConflict.hasConflict = ~free
            /\ util.args[4] = 0 => util.out.createBooking = ~free
            /\ util.args[4] # 0 => util.out.rescheduleBooking = ~free

\* C26 (as claimed): calculateAvailableSlots called with closingHour <=
\* openingHour does not return a list of slots (it ends with an error).
C26_InvalidBusinessHoursRejected ==
    ~(/\ util.fn = "calculateAvailableSlots"
      /\ util.args[4] <= util.args[3])

\* C30 (as claimed): for openingHour < closingHour every slot that
\* calculateAvailableSlots emits begins at or after dayStart, ends at or
\* before dayEnd, is exactly slotDurationMinutes long and begins a whole
\* number of slot lengths after dayStart, also when the slot length does not
\* divide the length of the business window.
C30_SlotsInsideBusinessHours ==
    (util.fn = "calculateAvailableSlots" /\ util.args[3] < util.args[4]) =>
        LET dayStart == At(util.args[2], util.args[3], 0)
            dayEnd == At(util.args[2], util.args[4], 0)
            slotMs == util.args[5] * 60 * 1000
        IN  \A i \in DOMAIN util.out :
                /\ dayStart <= util.out[i].start
                /\ util.out[i].end <= dayEnd
                /\ util.out[i].end - util.out[i].start = slotMs
                /\ util.out[i].durationMinutes = util.args[5]
                /\ (util.out[i].start - dayStart) % slotMs = 0

\* the bookings of room r in bk, in their order
OfRoom(bk, r) == SelectSeq(bk, LAMBDA b : b.roomId = r)

C28_BookingsReferToRooms ==
    \A i \in DOMAIN bookings : bookings[i].roomId \in DOMAIN rooms

\* C29: whenever checkSingleRoomAvailability reports a slot of an active room
\* as free, checkRoomAvailability answers true for that room and the slot's
\* window: no booking of the room that is confirmed, active or pending
\* overlaps the slot, whatever the status of the stored bookings and whether
\* they start before the day or end after it.
C29_FreeSlotIsBookable ==
    (util.fn = "checkSingleRoomAvailability, checkRoomAvailability"
        /\ util.out.free.error = "none")
    => \A i \in DOMAIN util.out.free.value :
          /\ util.out.checkRoomAvailability[i] = Returned(TRUE)
          /\ \A j \in DOMAIN bookings :
                (bookings[j].roomId = util.args[1]
                    /\ bookings[j].status \in {"confirmed", "active", "pending"})
                => ~(bookings[j].startTime < util.out.free.value[i].end
                       /\ bookings[j].endTime > util.out.free.value[i].start)

====
